---- MODULE Spec2Model ----
(***************************************************************************)
(* Model of lib/wycc_lib.h, the header of the C support library for        *)
(* Whiley programs translated into C.                                      *)
(*                                                                         *)
(* The header holds one struct (wycc_obj) and five function declarations   *)
(* and no function body.  The model is the interface as generated code     *)
(* sees it: a store of wycc_obj values laid out as the struct says, and    *)
(* one action per declared entry point.  A call takes arguments of the     *)
(* declared parameter types and yields a value of the declared return      *)
(* type; what the callee does to the objects is not in the header, so it   *)
(* is a nondeterministic choice among the well-typed outcomes.             *)
(***************************************************************************)
EXTENDS Integers, Sequences, FiniteSets, TLC

(* Width of a C int in the model.  The real width is fixed by the target  *)
(* ABI (at least 16 bits); the model scales it down so that values just   *)
(* outside the range exist and conversions can be exercised.              *)
IntBits == 4

INT_MAX == 2 ^ (IntBits - 1) - 1
INT_MIN == -(2 ^ (IntBits - 1))

(* The null pointer. *)
NULL == 0

(* Addresses of the wycc_obj values generated code holds, and of the      *)
(* character buffers it passes as char*.                                   *)
Addr == {1}
TextAddr == {2}

(* Values generated code may try to put into an int: the ends of the      *)
(* range, their outside neighbours, and zero.                              *)
IntInputs == {INT_MIN - 1, INT_MIN, 0, INT_MAX, INT_MAX + 1}

(* Mutant of IntField: the field declared `unsigned int`. *)
UnsignedField(v) == v % (2 ^ IntBits)

(* `int typ; int cnt;` -- a value stored into an int field is converted   *)
(* to int (gcc: reduced modulo 2^N into INT_MIN..INT_MAX).                 *)
IntField(v) == ((v - INT_MIN) % (2 ^ IntBits)) + INT_MIN

(* The values an int can hold, as far as the model samples them. *)
CIntVals == {IntField(v) : v \in IntInputs}

(* `wycc_obj*` values: null or the address of an object. *)
ObjPtr == {NULL} \cup Addr

(* `char*` values: null or the address of a character buffer. *)
CharPtr == {NULL} \cup TextAddr

(* `void* ptr` -- an untyped reference: null or the address of anything. *)
VoidPtr == {NULL} \cup Addr \cup TextAddr

(* Mutant of wycc_obj: the stray `;` of line 26 taken as a fourth member. *)
wycc_obj_stray == [typ : CIntVals, cnt : CIntVals, ptr : VoidPtr, stray : {0}]

(* typedef struct Wycc_object { ; int typ; int cnt; void* ptr; } wycc_obj *)
wycc_obj == [typ : CIntVals, cnt : CIntVals, ptr : VoidPtr]

(* An object in zero-initialised (static) storage. *)
ZeroObj == CHOOSE o \in wycc_obj : o.typ = 0 /\ o.cnt = 0 /\ o.ptr = NULL

(* Names of the declared functions. *)
FnMain == "wycc_main"
FnDerefBox == "wycc_deref_box"
FnBoxStr == "wycc_box_str"
FnDebugStr == "wyil_debug_str"
FnDebugObj == "wyil_debug_obj"

(* Mutant of Prototypes: the commented-out declaration of line 36 live. *)
PrototypesWithObjStr ==
    ( FnMain      :> [ret |-> "void",      params |-> << >>]
   @@ "wyil_obj_str" :> [ret |-> "wycc_obj*", params |-> <<"char*">>]
   @@ FnDerefBox  :> [ret |-> "wycc_obj*", params |-> <<"wycc_obj*", "int">>]
   @@ FnBoxStr    :> [ret |-> "wycc_obj*", params |-> <<"char*">>]
   @@ FnDebugStr  :> [ret |-> "void",      params |-> <<"char*">>]
   @@ FnDebugObj  :> [ret |-> "void",      params |-> <<"wycc_obj*">>] )

(* Mutant of Prototypes: wycc_deref_box hands back an integer status. *)
PrototypesDerefStatus ==
    ( FnMain      :> [ret |-> "void",      params |-> << >>]
   @@ FnDerefBox  :> [ret |-> "int",       params |-> <<"wycc_obj*", "int">>]
   @@ FnBoxStr    :> [ret |-> "wycc_obj*", params |-> <<"char*">>]
   @@ FnDebugStr  :> [ret |-> "void",      params |-> <<"char*">>]
   @@ FnDebugObj  :> [ret |-> "void",      params |-> <<"wycc_obj*">>] )

(* Mutant of Prototypes: wyil_debug_obj reports a status to its caller. *)
PrototypesDebugStatus ==
    ( FnMain      :> [ret |-> "void",      params |-> << >>]
   @@ FnDerefBox  :> [ret |-> "wycc_obj*", params |-> <<"wycc_obj*", "int">>]
   @@ FnBoxStr    :> [ret |-> "wycc_obj*", params |-> <<"char*">>]
   @@ FnDebugStr  :> [ret |-> "void",      params |-> <<"char*">>]
   @@ FnDebugObj  :> [ret |-> "int",       params |-> <<"wycc_obj*">>] )

(* The function declarations of the header, lines 35 to 44:               *)
(*   void wycc_main();                                                    *)
(*   wycc_obj* wycc_deref_box(wycc_obj* itm, int flg);                    *)
(*   wycc_obj* wycc_box_str(char* text);                                  *)
(*   void wyil_debug_str(char* mesg);                                     *)
(*   void wyil_debug_obj(wycc_obj *ptr);                                  *)
(* Line 36 (wyil_obj_str) is commented out and declares nothing.          *)
(* wycc_main is declared with an empty parameter list; generated code is  *)
(* taken to call it without arguments.                                    *)
Prototypes ==
    ( FnMain      :> [ret |-> "void",      params |-> << >>]
   @@ FnDerefBox  :> [ret |-> "wycc_obj*", params |-> <<"wycc_obj*", "int">>]
   @@ FnBoxStr    :> [ret |-> "wycc_obj*", params |-> <<"char*">>]
   @@ FnDebugStr  :> [ret |-> "void",      params |-> <<"char*">>]
   @@ FnDebugObj  :> [ret |-> "void",      params |-> <<"wycc_obj*">>] )

(* The result of a function declared void: no value. *)
Void == [kind |-> "void", val |-> 0]

(* The values of a C type named in the header, tagged with the type. *)
Values(t) ==
    CASE t = "void"      -> {Void}
      [] t = "int"       -> {[kind |-> "int", val |-> i] : i \in CIntVals}
      [] t = "wycc_obj*" -> {[kind |-> "wycc_obj*", val |-> p] : p \in ObjPtr}
      [] t = "char*"     -> {[kind |-> "char*", val |-> p] : p \in CharPtr}

(* The argument lists a parameter list accepts. *)
RECURSIVE ArgTuples(_)
ArgTuples(ps) ==
    IF ps = << >> THEN {<< >>}
    ELSE {<<v>> \o r : v \in Values(Head(ps)), r \in ArgTuples(Tail(ps))}

VARIABLES
    heap,    \* Addr -> wycc_obj: the objects, laid out as the struct says
    last,    \* the most recent call: function, arguments, result
    called   \* the functions called so far

vars == <<heap, last, called>>

Init ==
    /\ heap = [a \in Addr |-> ZeroObj]
    /\ last = [fn |-> "none", args |-> << >>, ret |-> Void]
    /\ called = {}

(* Mutant of Callable: the library must be initialised by wycc_main first. *)
CallableAfterMain(f) ==
    /\ f \in DOMAIN Prototypes
    /\ f = FnMain \/ FnMain \in called

(* What the header requires before f may be called: that f is declared.   *)
(* No declaration carries a precondition on the state or on earlier calls. *)
Callable(f) == f \in DOMAIN Prototypes

(* What a callee may do to the objects.  No body is given, so any         *)
(* well-typed outcome is possible: nothing, or an object rewritten.       *)
Effects(h) == {h} \cup {[h EXCEPT ![a] = o] : a \in Addr, o \in wycc_obj}

(* A call of the declared function f by generated code. *)
Call(f) ==
    /\ Callable(f)
    /\ \E args \in ArgTuples(Prototypes[f].params) :
       \E r \in Values(Prototypes[f].ret) :
       \E h \in Effects(heap) :
          /\ last' = [fn |-> f, args |-> args, ret |-> r]
          /\ heap' = h
    /\ called' = called \cup {f}

wycc_main == Call(FnMain)
wycc_deref_box == Call(FnDerefBox)
wycc_box_str == Call(FnBoxStr)
wyil_debug_str == Call(FnDebugStr)
wyil_debug_obj == Call(FnDebugObj)

(* Generated code writes a member through the struct layout. *)
StoreTyp ==
    \E a \in Addr, v \in IntInputs :
        /\ heap' = [heap EXCEPT ![a].typ = IntField(v)]
        /\ UNCHANGED <<last, called>>

StoreCnt ==
    \E a \in Addr, v \in IntInputs :
        /\ heap' = [heap EXCEPT ![a].cnt = IntField(v)]
        /\ UNCHANGED <<last, called>>

StorePtr ==
    \E a \in Addr, p \in VoidPtr :
        /\ heap' = [heap EXCEPT ![a].ptr = p]
        /\ UNCHANGED <<last, called>>

Next ==
    \/ wycc_main
    \/ wycc_deref_box
    \/ wycc_box_str
    \/ wyil_debug_str
    \/ wyil_debug_obj
    \/ StoreTyp
    \/ StoreCnt
    \/ StorePtr

Spec == Init /\ [][Next]_vars

(***************************************************************************)
(* Properties                                                              *)
(***************************************************************************)

FiveNames == {FnMain, FnDerefBox, FnBoxStr, FnDebugStr, FnDebugObj}

(* C1: every wycc_obj value has exactly the three members typ, cnt and    *)
(* ptr and no others; typ and cnt are integers and ptr is a reference.    *)
(* The empty declaration inside the struct adds no member.                *)
C1_ThreeFields ==
    \A a \in Addr :
        /\ DOMAIN heap[a] = {"typ", "cnt", "ptr"}
        /\ heap[a].typ \in Int
        /\ heap[a].cnt \in Int
        /\ heap[a].ptr \in VoidPtr

(* C1 witness: an object whose three members have all been written. *)
C1_Witness ==
    \E a \in Addr : heap[a].typ # 0 /\ heap[a].cnt # 0 /\ heap[a].ptr # NULL

(* C2 as stated: the interface has exactly four callable entry points,    *)
(* so generated code can never have called more than four different ones. *)
C2_FourEntryPoints == Cardinality(called) <= 4

(* C2 amended: the interface consists of exactly five function            *)
(* declarations (wycc_main, wycc_deref_box, wycc_box_str, wyil_debug_str, *)
(* wyil_debug_obj); no other callable entry point is declared, and        *)
(* nothing else is ever called.                                           *)
C2_FiveEntryPoints ==
    /\ DOMAIN Prototypes = FiveNames
    /\ Cardinality(DOMAIN Prototypes) = 5
    /\ called \subseteq FiveNames
    /\ last.fn \in FiveNames \cup {"none"}

(* C2 witness: all five declared entry points have been called. *)
C2_Witness == called = FiveNames

(* C3: wycc_deref_box takes a wycc_obj reference and an int flag,         *)
(* wycc_box_str takes a character string, and the result of either is a   *)
(* value of type wycc_obj*, never an untyped payload or an integer.       *)
C3_BoxResults ==
    /\ last.fn = FnDerefBox =>
          /\ Len(last.args) = 2
          /\ last.args[1].kind = "wycc_obj*"
          /\ last.args[2].kind = "int"
    /\ last.fn = FnBoxStr =>
          /\ Len(last.args) = 1
          /\ last.args[1].kind = "char*"
    /\ last.fn \in {FnDerefBox, FnBoxStr} =>
          /\ last.ret.kind = "wycc_obj*"
          /\ last.ret.val \in ObjPtr

(* C3 witness: wycc_box_str has returned an object and wycc_deref_box,    *)
(* called on an object, has returned one too.                              *)
C3_Witness ==
    /\ FnBoxStr \in called
    /\ last.fn = FnDerefBox
    /\ last.args[1].val \in Addr
    /\ last.ret.val \in Addr

(* C4: no call reports failure through a declared error value: wycc_main, *)
(* wyil_debug_str and wyil_debug_obj return no value, and no call returns *)
(* anything but nothing or a wycc_obj reference.                          *)
C4_NoErrorValue ==
    /\ last.fn \in {FnMain, FnDebugStr, FnDebugObj} => last.ret = Void
    /\ last.ret.kind \in {"void", "wycc_obj*"}
    /\ \A f \in DOMAIN Prototypes : Prototypes[f].ret # "int"

(* C4 witness: the three void entry points have run, the last of them on  *)
(* a null object.                                                          *)
C4_Witness ==
    /\ {FnMain, FnDebugStr, FnDebugObj} \subseteq called
    /\ last.fn = FnDebugObj
    /\ last.args[1].val = NULL

(* C5: the header imposes no call-ordering protocol: in every state each  *)
(* declared entry point may be called, in particular wycc_box_str,        *)
(* wycc_deref_box and the debug routines before wycc_main has ever run.   *)
C5_NoCallOrder ==
    /\ ENABLED wycc_main
    /\ ENABLED wycc_deref_box
    /\ ENABLED wycc_box_str
    /\ ENABLED wyil_debug_str
    /\ ENABLED wyil_debug_obj

(* C5 witness: every other entry point has run and wycc_main never has. *)
C5_Witness ==
    /\ called = FiveNames \ {FnMain}
    /\ last.fn = FnBoxStr

(* C6: typ and cnt are signed fixed-width ints: whatever is stored, the   *)
(* value held lies in INT_MIN..INT_MAX; negative counts are not excluded. *)
C6_IntRange ==
    \A a \in Addr :
        /\ heap[a].typ \in INT_MIN .. INT_MAX
        /\ heap[a].cnt \in INT_MIN .. INT_MAX

(* C6 witness: an object with a negative count, here the least int. *)
C6_Witness ==
    \E a \in Addr : heap[a].cnt < 0 /\ heap[a].cnt = INT_MIN

====
